---------------------------- MODULE Spec2Model ----------------------------
(***************************************************************************)
(* Model of src/main.py: the row counter count_csv_rows, the               *)
(* reconciliation loop process_documents and the HTTP entry point main.    *)
(*                                                                         *)
(* Text is modelled as a tuple of one-character tokens, so that            *)
(* startswith, slicing, split and the CSV row parser are computed and not  *)
(* assumed.  The tokens LF, CR, DQ and COMMA stand for the characters      *)
(* "\n", "\r", the double quote and ",".                                   *)
(***************************************************************************)
EXTENDS Integers, Sequences, FiniteSets, TLC

VARIABLES
    docs,       \* document store: record id -> stored fields
    blobs,      \* blob store: <<bucket, blob name>> -> fetch outcome
    pc,         \* per pass: position in main / process_documents
    snap,       \* per pass: the documents as delivered by stream()
    idx,        \* per pass: index of the next record of the enumeration
    cause,      \* per pass: what made process_documents raise
    calls,      \* per pass: the count_csv_rows invocations, in order
    writes,     \* per pass: the update attempts, in order
    last,       \* per record: the pass and value of the last applied update
    rc          \* harness for one isolated count_csv_rows call

vars == <<docs, blobs, pc, snap, idx, cause, calls, writes, last, rc>>

-----------------------------------------------------------------------------
(* Bounds *)

NumDocs == 2
NumPasses == 2
MaxLen == 3

DocIds == 1..NumDocs
Passes == 1..NumPasses

-----------------------------------------------------------------------------
(* Text *)

LF == "LF"
CR == "CR"
DQ == "DQ"
COMMA == "COMMA"
EOL == "EOL"

CsvChars == {"x", COMMA, DQ, LF, CR}

RECURSIVE Texts(_)
Texts(n) ==
    IF n = 0 THEN {<<>>}
    ELSE LET shorter == Texts(n - 1)
         IN shorter \cup {Append(t, c) : t \in {u \in shorter : Len(u) = n - 1}, c \in CsvChars}

GsPrefix == <<"g", "s", ":", "/", "/">>

\* str.startswith
startswith(s, prefix) ==
    /\ Len(s) >= Len(prefix)
    /\ SubSeq(s, 1, Len(prefix)) = prefix

\* index of the first occurrence of sep in s at or after i, 0 when there is none
RECURSIVE find(_, _, _)
find(s, sep, i) ==
    IF i > Len(s) THEN 0
    ELSE IF s[i] = sep THEN i
    ELSE find(s, sep, i + 1)

\* str.split(sep, 1)
split1(s, sep) ==
    LET k == find(s, sep, 1)
    IN IF k = 0 THEN <<s>>
       ELSE <<SubSeq(s, 1, k - 1), SubSeq(s, k + 1, Len(s))>>

-----------------------------------------------------------------------------
(* Stored values.  A field of a Firestore document may be missing, null,    *)
(* a number, a string or a map; the code reads the path fields with         *)
(* dict.get(key, "") and tests them for truthiness.                         *)

Absent == [kind |-> "absent", s |-> <<>>]
Null == [kind |-> "null", s |-> <<>>]
Num == [kind |-> "num", s |-> <<>>]       \* a non-zero number
Str(s) == [kind |-> "str", s |-> s]

GS_F == <<"g", "s", ":", "/", "/", "b", "/", "f">>
GS_G == <<"g", "s", ":", "/", "/", "b", "/", "g">>

\* dict.get(key, ""): a missing key reads as the empty string
get_path(v) == IF v.kind = "absent" THEN Str(<<>>) ELSE v

\* Python truthiness of a value read from a path field
truthy(v) ==
    CASE v.kind = "str" -> Len(v.s) > 0
      [] v.kind = "num" -> TRUE
      [] OTHER -> FALSE

-----------------------------------------------------------------------------
(* Blob store *)

FetchErrors == {"NotFound", "Forbidden", "DecodeError", "Timeout"}

Text(t) == [kind |-> "text", text |-> t]
Failure(e) == [kind |-> e, text |-> <<>>]

\* storage.Client().bucket(b).blob(n).download_as_text()
download_as_text(store, bucket_name, blob_name) ==
    IF <<bucket_name, blob_name>> \in DOMAIN store
    THEN store[<<bucket_name, blob_name>>]
    ELSE Failure("NotFound")

-----------------------------------------------------------------------------
(* csv.reader over StringIO(content) *)

\* StringIO iteration: lines end at LF (kept), the rest is the last line
RECURSIVE readlines(_)
readlines(content) ==
    IF content = <<>> THEN <<>>
    ELSE LET k == find(content, LF, 1)
         IN IF k = 0 THEN <<content>>
            ELSE <<SubSeq(content, 1, k)>> \o readlines(SubSeq(content, k + 1, Len(content)))

\* one step of the reader's state machine (default dialect, not strict)
parse_process_char(state, c) ==
    LET start_field ==
            CASE c \in {LF, CR} -> "EAT_CRNL"
              [] c = EOL -> "START_RECORD"
              [] c = DQ -> "IN_QUOTED_FIELD"
              [] c = COMMA -> "START_FIELD"
              [] OTHER -> "IN_FIELD"
    IN CASE state = "START_RECORD" ->
                IF c = EOL THEN "START_RECORD"
                ELSE IF c \in {LF, CR} THEN "EAT_CRNL"
                ELSE start_field
         [] state = "START_FIELD" -> start_field
         [] state = "IN_FIELD" ->
                CASE c \in {LF, CR} -> "EAT_CRNL"
                  [] c = EOL -> "START_RECORD"
                  [] c = COMMA -> "START_FIELD"
                  [] OTHER -> "IN_FIELD"
         [] state = "IN_QUOTED_FIELD" ->
                IF c = DQ THEN "QUOTE_IN_QUOTED_FIELD" ELSE "IN_QUOTED_FIELD"
         [] state = "QUOTE_IN_QUOTED_FIELD" ->
                CASE c = DQ -> "IN_QUOTED_FIELD"
                  [] c = COMMA -> "START_FIELD"
                  [] c \in {LF, CR} -> "EAT_CRNL"
                  [] c = EOL -> "START_RECORD"
                  [] OTHER -> "IN_FIELD"
         [] state = "EAT_CRNL" ->
                CASE c \in {LF, CR} -> "EAT_CRNL"
                  [] c = EOL -> "START_RECORD"
                  [] OTHER -> "ERROR"
         [] OTHER -> "ERROR"

\* the state after feeding the characters of one line, from position i on
RECURSIVE parse_line(_, _, _)
parse_line(state, line, i) ==
    IF state = "ERROR" THEN "ERROR"
    ELSE IF i > Len(line) THEN parse_process_char(state, EOL)
    ELSE parse_line(parse_process_char(state, line[i]), line, i + 1)

\* the rows the reader yields from line i on: a row ends when a line leaves
\* the machine in START_RECORD, and at the end of input inside a quoted field
RECURSIVE reader_rows(_, _, _, _)
reader_rows(lines, i, state, n) ==
    IF i > Len(lines)
    THEN [err |-> FALSE, rows |-> IF state = "IN_QUOTED_FIELD" THEN n + 1 ELSE n]
    ELSE LET s == parse_line(state, lines[i], 1)
         IN CASE s = "ERROR" -> [err |-> TRUE, rows |-> n]
              [] s = "START_RECORD" -> reader_rows(lines, i + 1, "START_RECORD", n + 1)
              [] OTHER -> reader_rows(lines, i + 1, s, n)

csv_reader(content) == reader_rows(readlines(content), 1, "START_RECORD", 0)

-----------------------------------------------------------------------------
(* count_csv_rows *)

Return(n, f) == [exc |-> "none", val |-> n, fetched |-> f]
Raise(e) == [exc |-> e, val |-> 0, fetched |-> FALSE]

\* variant: the header row is counted with the data rows
row_count_with_header(content) ==
    LET parsed == csv_reader(content)
    IN IF parsed.err THEN 0 ELSE parsed.rows

\* header = next(reader, None); row_count = sum(1 for _ in reader)
row_count(content) ==
    LET parsed == csv_reader(content)
    IN IF parsed.err THEN 0                     \* csv.Error, caught
       ELSE IF parsed.rows = 0 THEN 0           \* header is None
       ELSE parsed.rows - 1

\* variant: the client is built and the file fetched before the blob name
\* is looked at
count_csv_rows_fetch_first(gs_path, store) ==
    IF gs_path.kind # "str" THEN Raise("AttributeError")
    ELSE IF ~startswith(gs_path.s, GsPrefix) THEN Return(0, FALSE)
    ELSE LET path_parts == split1(SubSeq(gs_path.s, 6, Len(gs_path.s)), "/")
             bucket_name == path_parts[1]
             blob_name == IF Len(path_parts) > 1 THEN path_parts[2] ELSE <<>>
             got == download_as_text(store, bucket_name, blob_name)
         IN IF got.kind # "text" \/ got.text = <<>> \/ blob_name = <<>>
            THEN Return(0, TRUE)
            ELSE Return(row_count(got.text), TRUE)

count_csv_rows(gs_path, store) ==
    IF gs_path.kind # "str" THEN Raise("AttributeError")
    ELSE IF ~startswith(gs_path.s, GsPrefix) THEN Return(0, FALSE)
    ELSE LET path_parts == split1(SubSeq(gs_path.s, 6, Len(gs_path.s)), "/")
             bucket_name == path_parts[1]
             blob_name == IF Len(path_parts) > 1 THEN path_parts[2] ELSE <<>>
         IN IF blob_name = <<>> THEN Return(0, FALSE)
            ELSE LET got == download_as_text(store, bucket_name, blob_name)
                 IN IF got.kind # "text" THEN Return(0, TRUE)
                    ELSE IF got.text = <<>> THEN Return(0, TRUE)
                    ELSE Return(row_count(got.text), TRUE)

-----------------------------------------------------------------------------
(* Documents *)

NoResults == [kind |-> "absent", dnc |-> 0, clean |-> 0, total |-> 0]
EmptyResults == [kind |-> "empty", dnc |-> 0, clean |-> 0, total |-> 0]
Counts(dnc, clean, total) == [kind |-> "counts", dnc |-> dnc, clean |-> clean, total |-> total]

NoOutputFiles == [kind |-> "absent", bl |-> Absent, cl |-> Absent]
NullOutputFiles == [kind |-> "null", bl |-> Absent, cl |-> Absent]
OutputFiles(bl, cl) == [kind |-> "map", bl |-> bl, cl |-> cl]

\* the outputFiles values a record may hold
OutputFilesCases ==
    { NoOutputFiles,
      NullOutputFiles,
      OutputFiles(Absent, Absent),
      OutputFiles(Str(<<>>), Str(<<>>)),
      OutputFiles(Str(GS_F), Str(GS_G)),
      OutputFiles(Str(GS_G), Null),
      OutputFiles(Num, Str(GS_G)) }

Document(results, of) == [results |-> results, outputFiles |-> of]

\* variant: the guard tests the value of results, "if data.get('results')"
has_results_truthy(data) == data.results.kind = "counts"

\* variant: the guard is missing
has_results_never(data) == FALSE

\* "results" in data
has_results(data) == data.results.kind # "absent"

-----------------------------------------------------------------------------
(* The files of the blob store *)

KeyF == << <<"b">>, <<"f">> >>
KeyG == << <<"b">>, <<"g">> >>
BlobKeys == {KeyF, KeyG}

Header1 == <<"x", LF, "x", LF>>                \* header and one data row
Header2 == <<"x", COMMA, "x", LF, "x", LF, "x">>  \* header and two data rows

\* what a fetch of file k may answer over time
BlobOutcomes(k) ==
    IF k = KeyF THEN {Text(Header1), Failure("NotFound")}
    ELSE {Text(Header2)}

-----------------------------------------------------------------------------
(* One iteration of the loop of process_documents, lines 75-91: the calls   *)
(* it makes and the results it computes, or the exception that escapes.     *)

Call(side, path, ret) == [side |-> side, path |-> path, ret |-> ret]

Computed(exc, cs, results) == [exc |-> exc, calls |-> cs, results |-> results]

\* variant: the two counts land in each other's field
make_results_swapped(results_dnc, results_clean) ==
    Counts(results_clean, results_dnc, results_dnc + results_clean)

make_results(results_dnc, results_clean) ==
    Counts(results_dnc, results_clean, results_dnc + results_clean)

loop_body(data, store) ==
    LET output_files == data.outputFiles
    IN IF output_files.kind = "null"
       THEN Computed("AttributeError", <<>>, NoResults)
       ELSE
       LET blacklisted_path == get_path(output_files.bl)
           bl_ret == count_csv_rows(blacklisted_path, store)
           bl_calls == IF truthy(blacklisted_path)
                       THEN <<Call("blacklisted", blacklisted_path, bl_ret)>>
                       ELSE <<>>
           results_dnc == IF truthy(blacklisted_path) THEN bl_ret.val ELSE 0
       IN IF truthy(blacklisted_path) /\ bl_ret.exc # "none"
          THEN Computed(bl_ret.exc, bl_calls, NoResults)
          ELSE
          LET clean_path == get_path(output_files.cl)
              cl_ret == count_csv_rows(clean_path, store)
              cl_calls == IF truthy(clean_path)
                          THEN <<Call("clean", clean_path, cl_ret)>>
                          ELSE <<>>
              results_clean == IF truthy(clean_path) THEN cl_ret.val ELSE 0
          IN IF truthy(clean_path) /\ cl_ret.exc # "none"
             THEN Computed(cl_ret.exc, bl_calls \o cl_calls, NoResults)
             ELSE Computed("none", bl_calls \o cl_calls,
                           make_results(results_dnc, results_clean))

\* variant: results with a zero count are held back for a later pass
update_unless_zero(store, d, results) ==
    IF results.dnc = 0 \/ results.clean = 0
    THEN store
    ELSE [store EXCEPT ![d].results = results]

\* variant: the record is replaced, as by set(), instead of updated
update_replaces(store, d, results) ==
    [store EXCEPT ![d] = Document(results, NoOutputFiles)]

\* variant: the update is applied only to a record that has no results yet
update_if_absent(store, d, results) ==
    IF store[d].results.kind = "absent"
    THEN [store EXCEPT ![d].results = results]
    ELSE store

\* doc.reference.update({"results": results}) when the call succeeds
update(store, d, results) == [store EXCEPT ![d].results = results]

\* variant: the except branch marks the record with zero counts
update_failed_marks(store, d, results) ==
    [store EXCEPT ![d].results = Counts(0, 0, 0)]

\* the except branch of the update: the failure is logged, nothing is stored
update_failed(store, d, results) == store

-----------------------------------------------------------------------------
(* State *)

Logged(d, c) == [doc |-> d, side |-> c.side, path |-> c.path, ret |-> c.ret]

RECURSIVE LogCalls(_, _)
LogCalls(d, cs) ==
    IF cs = <<>> THEN <<>> ELSE <<Logged(d, Head(cs))>> \o LogCalls(d, Tail(cs))

Attempt(d, results, ok) == [doc |-> d, results |-> results, ok |-> ok]

NeverWritten == [pass |-> 0, results |-> NoResults]

RcIdle == [pc |-> "idle", gs_path |-> Absent, got |-> Failure("NotFound"),
           ret |-> Return(0, FALSE)]

\* the records a collection may hold before any pass
Records ==
    {Document(NoResults, of) : of \in OutputFilesCases}
        \cup {Document(EmptyResults, OutputFiles(Str(GS_F), Str(GS_G)))}

\* the records a race is about: already processed, or with files to count
Contended ==
    {r \in Records :
        \/ has_results(r)
        \/ /\ loop_body(r, <<>>).exc = "none"
           /\ loop_body(r, <<>>).calls # <<>>}

Stores ==
    {store \in [BlobKeys -> UNION {BlobOutcomes(k) : k \in BlobKeys}] :
        \A k \in BlobKeys : store[k] \in BlobOutcomes(k)}

Start(records) ==
    /\ docs \in [DocIds -> records]
    /\ blobs \in Stores
    /\ pc = [p \in Passes |-> "idle"]
    /\ snap = [p \in Passes |-> <<>>]
    /\ idx = [p \in Passes |-> 0]
    /\ cause = [p \in Passes |-> "none"]
    /\ calls = [p \in Passes |-> <<>>]
    /\ writes = [p \in Passes |-> <<>>]
    /\ last = [d \in DocIds |-> NeverWritten]
    /\ rc = RcIdle

Init == Start(Records)

Running(p) == pc[p] \in {"stream", "loop"}

\* main is invoked and process_documents constructs the Firestore client
Enter(p) ==
    /\ pc[p] = "idle"
    /\ IF p = 1 THEN TRUE ELSE pc[p - 1] # "idle"
    /\ \/ /\ pc' = [pc EXCEPT ![p] = "stream"]
          /\ UNCHANGED cause
       \/ /\ pc' = [pc EXCEPT ![p] = "raised"]
          /\ cause' = [cause EXCEPT ![p] = "client"]
    /\ UNCHANGED <<docs, blobs, snap, idx, calls, writes, last, rc>>

\* a trigger that arrives while no other pass is running
Trigger(p) ==
    /\ \A q \in Passes : ~Running(q)
    /\ Enter(p)

\* a trigger that arrives whatever the other passes are doing
TriggerOverlapping(p) == Enter(p)

\* docs = db.collection(collection_name).stream()
Stream(p) ==
    /\ pc[p] = "stream"
    /\ \/ /\ pc' = [pc EXCEPT ![p] = "loop"]
          /\ snap' = [snap EXCEPT ![p] = docs]
          /\ idx' = [idx EXCEPT ![p] = 1]
          /\ UNCHANGED cause
       \/ /\ pc' = [pc EXCEPT ![p] = "raised"]
          /\ cause' = [cause EXCEPT ![p] = "enumeration"]
          /\ UNCHANGED <<snap, idx>>
    /\ UNCHANGED <<docs, blobs, calls, writes, last, rc>>

\* the enumeration fails while the loop asks it for the next record
EnumerationFails(p) ==
    /\ pc[p] = "loop"
    /\ pc' = [pc EXCEPT ![p] = "raised"]
    /\ cause' = [cause EXCEPT ![p] = "enumeration"]
    /\ UNCHANGED <<docs, blobs, snap, idx, calls, writes, last, rc>>

\* variant: the loop stays on a record whose update failed and tries again
Iterate_retrying(p) ==
    /\ pc[p] = "loop"
    /\ idx[p] <= NumDocs
    /\ LET d == idx[p]
           data == snap[p][d]
           body == loop_body(data, blobs)
       IN IF has_results(data)
          THEN /\ idx' = [idx EXCEPT ![p] = d + 1]
               /\ UNCHANGED <<docs, pc, cause, calls, writes, last>>
          ELSE /\ calls' = [calls EXCEPT ![p] = @ \o LogCalls(d, body.calls)]
               /\ IF body.exc # "none"
                  THEN /\ pc' = [pc EXCEPT ![p] = "raised"]
                       /\ cause' = [cause EXCEPT ![p] = body.exc]
                       /\ UNCHANGED <<docs, idx, writes, last>>
                  ELSE /\ \/ /\ docs' = update(docs, d, body.results)
                             /\ writes' = [writes EXCEPT ![p] =
                                               Append(@, Attempt(d, body.results, TRUE))]
                             /\ last' = [last EXCEPT ![d] =
                                             [pass |-> p, results |-> body.results]]
                          \/ /\ docs' = update_failed(docs, d, body.results)
                             /\ writes' = [writes EXCEPT ![p] =
                                               Append(@, Attempt(d, body.results, FALSE))]
                             /\ UNCHANGED last
                       /\ idx' = [idx EXCEPT ![p] = IF docs' = docs THEN d ELSE d + 1]
                       /\ UNCHANGED <<pc, cause>>
    /\ UNCHANGED <<blobs, snap, rc>>

\* one iteration of "for doc in docs"
Iterate(p) ==
    /\ pc[p] = "loop"
    /\ idx[p] <= NumDocs
    /\ LET d == idx[p]
           data == snap[p][d]
           body == loop_body(data, blobs)
       IN IF has_results(data)
          THEN /\ idx' = [idx EXCEPT ![p] = d + 1]
               /\ UNCHANGED <<docs, pc, cause, calls, writes, last>>
          ELSE /\ calls' = [calls EXCEPT ![p] = @ \o LogCalls(d, body.calls)]
               /\ IF body.exc # "none"
                  THEN /\ pc' = [pc EXCEPT ![p] = "raised"]
                       /\ cause' = [cause EXCEPT ![p] = body.exc]
                       /\ UNCHANGED <<docs, idx, writes, last>>
                  ELSE /\ \/ /\ docs' = update(docs, d, body.results)
                             /\ writes' = [writes EXCEPT ![p] =
                                               Append(@, Attempt(d, body.results, TRUE))]
                             /\ last' = [last EXCEPT ![d] =
                                             [pass |-> p, results |-> body.results]]
                          \/ /\ docs' = update_failed(docs, d, body.results)
                             /\ writes' = [writes EXCEPT ![p] =
                                               Append(@, Attempt(d, body.results, FALSE))]
                             /\ UNCHANGED last
                       /\ idx' = [idx EXCEPT ![p] = d + 1]
                       /\ UNCHANGED <<pc, cause>>
    /\ UNCHANGED <<blobs, snap, rc>>

\* the enumeration is exhausted: process_documents returns, main answers 200
Finish(p) ==
    /\ pc[p] = "loop"
    /\ idx[p] > NumDocs
    /\ pc' = [pc EXCEPT ![p] = "done"]
    /\ UNCHANGED <<docs, blobs, snap, idx, cause, calls, writes, last, rc>>

\* the outcome main reports for a pass that has ended
main_status(p) ==
    CASE pc[p] = "done" -> 200
      [] pc[p] = "raised" -> 500
      [] OTHER -> 0

\* the blob store is owned by others: a file appears, disappears or changes
BlobChange(k) ==
    /\ \E o \in BlobOutcomes(k) \ {blobs[k]} : blobs' = [blobs EXCEPT ![k] = o]
    /\ UNCHANGED <<docs, pc, snap, idx, cause, calls, writes, last, rc>>

Pass(p) ==
    \/ Stream(p)
    \/ EnumerationFails(p)
    \/ Iterate(p)
    \/ Finish(p)

Next ==
    \/ \E p \in Passes : Trigger(p)
    \/ \E p \in Passes : Pass(p)

\* passes run one after another, over a blob store that holds still
Spec == Init /\ [][Next]_vars

\* the two passes of an overlap
Overlapping == {1, 2}

NextOverlap ==
    \/ \E p \in Overlapping : TriggerOverlapping(p)
    \/ \E p \in Overlapping : Pass(p)
    \/ \E k \in BlobKeys : BlobChange(k)

\* passes may overlap in time, and the files may change under them
InitOverlap == Start(Contended)

SpecOverlap == InitOverlap /\ [][NextOverlap]_vars

\* one pass from its trigger to its end
NextPass ==
    \/ Trigger(1)
    \/ Pass(1)

\* process_documents is sequential code: once started it takes its next step
SpecPass == Init /\ [][NextPass]_vars /\ WF_vars(Pass(1))

NextRecount ==
    \/ \E p \in Passes : Trigger(p)
    \/ \E p \in Passes : Pass(p)
    \/ \E k \in BlobKeys : BlobChange(k)

\* passes run one after another while the files change between and under them
SpecRecount == InitOverlap /\ [][NextRecount]_vars

-----------------------------------------------------------------------------
(* One count_csv_rows call in isolation *)

B_SLASH == <<"g", "s", ":", "/", "/", "b", "/">>
B_ONLY == <<"g", "s", ":", "/", "/", "b">>
B_SLASHES == <<"g", "s", ":", "/", "/", "b", "/", "/">>
ONE_SLASH == <<"g", "s", ":", "/", "b", "/", "f">>
NO_BUCKET == <<"g", "s", ":", "/", "/", "/", "f">>
B_F == <<"b", "/", "f">>
UPPER == <<"G", "S", ":", "/", "/", "b", "/", "f">>

\* the values a path field may hand to count_csv_rows
RefValues ==
    { Num, Str(GS_F), Str(GS_G), Str(B_SLASH), Str(B_ONLY), Str(GsPrefix),
      Str(ONE_SLASH), Str(NO_BUCKET), Str(UPPER), Str(B_F), Str(<<"f">>),
      Str(B_SLASHES) }

\* every file of the bucket answers the fetch with the same outcome
StoreOf(got) == [k \in BlobKeys |-> got]

InitCount ==
    /\ docs = [d \in DocIds |-> Document(NoResults, NoOutputFiles)]
    /\ blobs = StoreOf(Failure("NotFound"))
    /\ pc = [p \in Passes |-> "idle"]
    /\ snap = [p \in Passes |-> <<>>]
    /\ idx = [p \in Passes |-> 0]
    /\ cause = [p \in Passes |-> "none"]
    /\ calls = [p \in Passes |-> <<>>]
    /\ writes = [p \in Passes |-> <<>>]
    /\ last = [d \in DocIds |-> NeverWritten]
    /\ \E v \in RefValues, got \in {Text(t) : t \in Texts(MaxLen)}
                                    \cup {Failure(e) : e \in FetchErrors} :
           rc = [pc |-> "ready", gs_path |-> v, got |-> got, ret |-> Return(0, FALSE)]

CallCount ==
    /\ rc.pc = "ready"
    /\ rc' = [rc EXCEPT !.pc = "returned",
                        !.ret = count_csv_rows(rc.gs_path, StoreOf(rc.got))]
    /\ UNCHANGED <<docs, blobs, pc, snap, idx, cause, calls, writes, last>>

SpecCount == InitCount /\ [][CallCount]_vars

-----------------------------------------------------------------------------
(* Properties *)

Processed(data) == data.results # NoResults

MissingOrEmpty(v) == v.kind = "absent" \/ v = Str(<<>>)
NonEmptyPath(v) == v.kind = "str" /\ v.s # <<>>

\* the passes that received their enumeration
Streamed(p) == idx[p] >= 1

\* the update attempts and the invocations of pass p that concern record d
WritesFor(p, d) == SelectSeq(writes[p], LAMBDA w : w.doc = d)
CallsFor(p, d) == SelectSeq(calls[p], LAMBDA c : c.doc = d)
SidesCalled(p, d) == [i \in DOMAIN CallsFor(p, d) |-> CallsFor(p, d)[i].side]

\* the sides of a record that name a file, blacklisted side first
SidesWithFile(data) ==
    (IF NonEmptyPath(data.outputFiles.bl) THEN <<"blacklisted">> ELSE <<>>)
        \o (IF NonEmptyPath(data.outputFiles.cl) THEN <<"clean">> ELSE <<>>)

\* the count of the file a path field names, in the given blob store
CountOf(v, store) == IF NonEmptyPath(v) THEN count_csv_rows(v, store).val ELSE 0

\* C1: in passes run one after another, a record that carries a results
\* attribute (of any value) is never changed by any later step.
C1_ResultsWrittenOnce ==
    [][\A d \in DocIds : Processed(docs[d]) => docs'[d] = docs[d]]_vars

\* the second pass has run to its end over a record the first pass wrote
C1_Witness ==
    /\ pc[2] = "done"
    /\ \E d \in DocIds :
          /\ last[d].pass = 1
          /\ snap[2][d].results.kind = "counts"
          /\ docs[d] = snap[2][d]

\* C2: a pass over a collection in which every record already carries results
\* (an empty value included) makes no count_csv_rows invocation and no update,
\* and the store is as the pass found it.
C2_ProcessedCollectionUntouched ==
    \A p \in Passes :
        (Streamed(p) /\ \A d \in DocIds : Processed(snap[p][d]))
            => /\ calls[p] = <<>>
               /\ writes[p] = <<>>
               /\ docs = snap[p]

\* a pass has ended over records that all carry results, one of them empty
C2_Witness ==
    \E p \in Passes :
        /\ pc[p] = "done"
        /\ \A d \in DocIds : Processed(snap[p][d])
        /\ \E d \in DocIds : snap[p][d].results = EmptyResults
        /\ \E d \in DocIds : snap[p][d].results.kind = "counts"

\* C3: count_csv_rows never raises and returns a non-negative integer for
\* every truthy value the loop may pass and every outcome of the fetch.
C3_NeverRaises ==
    (rc.pc = "returned" /\ truthy(rc.gs_path))
        => (rc.ret.exc = "none" /\ rc.ret.val >= 0)

\* C4: process_documents raises, and main reports the failure outcome, only
\* when the client cannot be constructed or the enumeration fails, whatever
\* the records hold.
C4_OnlyStartupFailsThePass ==
    \A p \in Passes : main_status(p) = 500 => cause[p] \in {"client", "enumeration"}

FailedWrites(p) == {i \in DOMAIN writes[p] : ~writes[p][i].ok}

\* C5: a pass whose enumeration was delivered in full and in which exactly one
\* update failed ends without raising, and every other record it found
\* without results carries its own counts.
C5_PartialFailureIsolated ==
    \A p \in Passes :
        ( /\ pc[p] \in {"done", "raised"}
          /\ cause[p] \notin {"client", "enumeration"}
          /\ Cardinality(FailedWrites(p)) = 1 )
        => /\ pc[p] = "done"
           /\ \A d \in DocIds :
                 (~Processed(snap[p][d]) /\ \A i \in FailedWrites(p) : writes[p][i].doc # d)
                     => docs[d].results =
                            Counts(CountOf(snap[p][d].outputFiles.bl, blobs),
                                   CountOf(snap[p][d].outputFiles.cl, blobs),
                                   CountOf(snap[p][d].outputFiles.bl, blobs)
                                       + CountOf(snap[p][d].outputFiles.cl, blobs))

\* C6: a record whose update failed in pass p has no results until a later
\* pass writes them, and the next pass finds it without results, does not
\* raise on it, counts its files again and attempts the update again.
C6_FailedWriteRetriedByNextPass ==
    \A p \in Passes : \A i \in DOMAIN writes[p] :
        ~writes[p][i].ok =>
            LET d == writes[p][i].doc
            IN /\ (\A q \in Passes : q > p => \A j \in DOMAIN writes[q] :
                                        ~(writes[q][j].doc = d /\ writes[q][j].ok))
                      => ~Processed(docs[d])
               /\ (p + 1 \in Passes /\ Streamed(p + 1)) =>
                      /\ ~Processed(snap[p + 1][d])
                      /\ (pc[p + 1] = "raised" /\ idx[p + 1] = d)
                            => cause[p + 1] = "enumeration"
                      /\ idx[p + 1] > d =>
                            /\ Len(WritesFor(p + 1, d)) = 1
                            /\ SidesCalled(p + 1, d) = SidesWithFile(snap[p + 1][d])

\* the update of a record with two files failed in the first pass and the
\* second pass counted both files and wrote the record
C6_Witness ==
    \E d \in DocIds :
        /\ Len(WritesFor(1, d)) = 1
        /\ ~WritesFor(1, d)[1].ok
        /\ Len(WritesFor(2, d)) = 1
        /\ WritesFor(2, d)[1].ok
        /\ SidesCalled(2, d) = <<"blacklisted", "clean">>
        /\ Processed(docs[d])

\* C7: every results value handed to update has total = dnc + clean with
\* dnc and clean non-negative, dnc being the count of the record's own
\* blacklistedFilePath and clean the count of its own cleanFilePath.
C7_TotalIsSumOfOwnCounts ==
    \A p \in Passes : \A i \in DOMAIN writes[p] :
        LET w == writes[p][i]
            data == snap[p][w.doc]
        IN /\ w.results.kind = "counts"
           /\ w.results.dnc >= 0
           /\ w.results.clean >= 0
           /\ w.results.total = w.results.dnc + w.results.clean
           /\ w.results.dnc = CountOf(data.outputFiles.bl, blobs)
           /\ w.results.clean = CountOf(data.outputFiles.cl, blobs)
           /\ \A j \in DOMAIN CallsFor(p, w.doc) :
                 LET c == CallsFor(p, w.doc)[j]
                 IN /\ c.side = "blacklisted" =>
                          (c.path = data.outputFiles.bl /\ c.ret.val = w.results.dnc)
                    /\ c.side = "clean" =>
                          (c.path = data.outputFiles.cl /\ c.ret.val = w.results.clean)

\* a record whose two files hold one and two data rows was written {1, 2, 3}
C7_Witness ==
    \E p \in Passes : \E i \in DOMAIN writes[p] :
        /\ writes[p][i].ok
        /\ writes[p][i].results = Counts(1, 2, 3)
        /\ docs[writes[p][i].doc].results = Counts(1, 2, 3)

\* content without quotes and carriage returns: its rows are its lines
Plain(t) == \A i \in DOMAIN t : t[i] \notin {DQ, CR}
PlainRows(t) ==
    Cardinality({i \in DOMAIN t : t[i] = LF})
        + (IF t # <<>> /\ t[Len(t)] # LF THEN 1 ELSE 0)

\* the references that name a file of the blob store
StoredFiles == {Str(GS_F), Str(GS_G)}

Minus1(r) == IF r >= 1 THEN r - 1 ELSE 0

\* C8: for fetched content that parses into R rows, count_csv_rows returns
\* R - 1 when R >= 1 and 0 when R = 0; for content of plain lines R is the
\* number of lines, whatever the shape of each line.
C8_HeaderExcluded ==
    (rc.pc = "returned" /\ rc.gs_path \in StoredFiles /\ rc.got.kind = "text")
        => /\ ~csv_reader(rc.got.text).err
                => rc.ret = Return(Minus1(csv_reader(rc.got.text).rows), TRUE)
           /\ Plain(rc.got.text)
                => /\ ~csv_reader(rc.got.text).err
                   /\ rc.ret.val = Minus1(PlainRows(rc.got.text))

\* a header followed by a row that is only an opening quote counted as one
\* data row
C8_Witness ==
    /\ rc.pc = "returned"
    /\ rc.gs_path = Str(GS_F)
    /\ rc.got = Text(<<"x", LF, DQ>>)
    /\ rc.ret = Return(1, TRUE)

\* C9: with overlapping passes, a pass attempts the update of every record
\* its enumeration showed without results, whatever the store holds by then,
\* and the stored results are those of the update applied last.
C9_PresenceCheckIsTheOnlyGuard ==
    /\ \A p \in Passes : \A d \in DocIds :
          (Streamed(p) /\ idx[p] > d /\ ~Processed(snap[p][d]))
              => Len(WritesFor(p, d)) = 1
    /\ \A d \in DocIds : last[d].pass # 0 => docs[d].results = last[d].results

\* both passes saw the record without results, both wrote it with different
\* values, and the store holds the value written last
C9_Witness ==
    \E d \in DocIds :
        /\ Streamed(1) /\ Streamed(2)
        /\ ~Processed(snap[1][d]) /\ ~Processed(snap[2][d])
        /\ Len(WritesFor(1, d)) = 1 /\ WritesFor(1, d)[1].ok
        /\ Len(WritesFor(2, d)) = 1 /\ WritesFor(2, d)[1].ok
        /\ WritesFor(1, d)[1].results # WritesFor(2, d)[1].results
        /\ last[d].pass = 1
        /\ docs[d].results = WritesFor(1, d)[1].results

\* the loop has dealt with record d in pass p: it went past it, or raised on it
Handled(p, d) ==
    /\ Streamed(p)
    /\ \/ idx[p] > d
       \/ idx[p] = d /\ pc[p] = "raised" /\ cause[p] # "enumeration"

\* C10: for each record found without results, a side whose path is missing
\* or empty gets count 0 and no invocation, a side with a non-empty path gets
\* exactly one invocation, blacklisted side first, and a record with both
\* paths missing or empty is written {dnc: 0, clean: 0, total: 0}.
C10_OneInvocationPerNamedFile ==
    \A p \in Passes : \A d \in DocIds :
        (Handled(p, d) /\ ~Processed(snap[p][d])) =>
            LET of == snap[p][d].outputFiles
            IN /\ SidesCalled(p, d) = SidesWithFile(snap[p][d])
               /\ (MissingOrEmpty(of.bl) /\ MissingOrEmpty(of.cl))
                     => /\ Len(WritesFor(p, d)) = 1
                        /\ WritesFor(p, d)[1].results = Counts(0, 0, 0)


\* C11: a step of a pass changes the document store only by setting the
\* results field of the record the pass is at, which its enumeration showed
\* without results: no record appears or disappears, no outputFiles changes,
\* and no update is attempted on a record the pass skipped.
C11_OnlyResultsOfUnprocessedChange ==
    [][ /\ DOMAIN docs' = DOMAIN docs
        /\ \A d \in DocIds :
              /\ docs'[d].outputFiles = docs[d].outputFiles
              /\ docs'[d] # docs[d] =>
                    \E p \in Passes :
                        /\ pc[p] = "loop" /\ idx[p] = d /\ idx'[p] = d + 1
                        /\ ~Processed(snap[p][d])
                        /\ docs'[d].results.kind = "counts"
        /\ \A p \in Passes : \A i \in DOMAIN writes'[p] :
              /\ ~Processed(snap'[p][writes'[p][i].doc])
              /\ i \notin DOMAIN writes[p] => writes'[p][i].doc = idx[p]
      ]_vars

\* a pass has ended that skipped one record and wrote another, whose
\* outputFiles are still in place
C11_Witness ==
    \E p \in Passes : \E d, e \in DocIds :
        /\ pc[p] = "done"
        /\ Processed(snap[p][d]) /\ docs[d] = snap[p][d]
        /\ ~Processed(snap[p][e]) /\ last[e].pass = p
        /\ docs[e].results.kind = "counts"
        /\ docs[e].outputFiles = OutputFiles(Str(GS_F), Str(GS_G))


Ended(p) == pc[p] \in {"done", "raised"}

HasScheme(s) ==
    /\ Len(s) >= 5
    /\ s[1] = "g" /\ s[2] = "s" /\ s[3] = ":" /\ s[4] = "/" /\ s[5] = "/"

\* past the scheme there is a "/" that closes the container segment, and the
\* reference goes on after the first such "/"
HasFilePath(s) ==
    \E i \in 6..Len(s) :
        /\ s[i] = "/"
        /\ \A j \in 6..(i - 1) : s[j] # "/"
        /\ i < Len(s)

\* C13: a string reference without the scheme prefix gs://, or without a
\* non-empty file path after the container segment, makes count_csv_rows
\* return 0 with no storage client built and no fetch attempted; any other
\* string reference is fetched.
C13_InvalidReferenceNotFetched ==
    (rc.pc = "returned" /\ rc.gs_path.kind = "str") =>
        IF HasScheme(rc.gs_path.s) /\ HasFilePath(rc.gs_path.s)
        THEN rc.ret.exc = "none" /\ rc.ret.fetched
        ELSE rc.ret = Return(0, FALSE)

\* a reference that ends at the "/" after the container returned 0 unfetched,
\* though the store would have answered with a header and a data row
C13_Witness ==
    /\ rc.pc = "returned"
    /\ rc.gs_path = Str(B_SLASH)
    /\ rc.got = Text(<<"x", LF, "x">>)
    /\ rc.ret = Return(0, FALSE)


\* an invocation that fetched and came back with 0; every file of the store
\* holds data rows, so this is a fetch that failed
Degraded(c) == c.ret = Return(0, TRUE)

\* C14: when a count degrades to 0 because the fetch failed, the loop still
\* attempts the update with that 0; once applied, the record is skipped by
\* every later pass run after it (no invocation, no update attempt) and keeps
\* the 0, whatever the blob store holds by then.
C14_DegradedZeroIsFinal ==
    \A p \in Passes : \A d \in DocIds : \A k \in DOMAIN CallsFor(p, d) :
        LET c == CallsFor(p, d)[k]
        IN Degraded(c) =>
              /\ Len(WritesFor(p, d)) = 1
              /\ LET w == WritesFor(p, d)[1]
                 IN /\ c.side = "blacklisted" => w.results.dnc = 0
                    /\ c.side = "clean" => w.results.clean = 0
                    /\ w.ok =>
                          /\ docs[d].results = w.results
                          /\ \A q \in Passes : (q > p /\ Streamed(q)) =>
                                /\ Processed(snap[q][d])
                                /\ CallsFor(q, d) = <<>>
                                /\ WritesFor(q, d) = <<>>

\* the first pass wrote dnc = 0 for a file that could not be fetched; the file
\* is fetchable now and holds a data row, and the second pass has run to its
\* end without touching the record
C14_Witness ==
    \E d \in DocIds :
        /\ last[d].pass = 1
        /\ Len(CallsFor(1, d)) >= 1 /\ Degraded(CallsFor(1, d)[1])
        /\ docs[d].results.dnc = 0
        /\ CountOf(docs[d].outputFiles.bl, blobs) = 1
        /\ pc[2] = "done"
        /\ CallsFor(2, d) = <<>>
        /\ WritesFor(2, d) = <<>>

=============================================================================
